---- MODULE Spec2Model ----
EXTENDS Integers, Sequences, FiniteSets, TLC

(***************************************************************************)
(* Model of NewareNDA/NewareNDAx.py: read_ndax and the four scanners it    *)
(* calls (read_ndc_8, read_data_runInfo_ndc8, read_data_step_ndc8,         *)
(* read_ndc).  A byte buffer is modelled by its size and by the fields the *)
(* decoder unpacks from it; the fields are drawn when the scanner reads    *)
(* the bytes that hold them.                                               *)
(***************************************************************************)

VARIABLES
    pc,          \* position in read_ndax / the scanner it is running
    rev,         \* int(server[14])
    extracted,   \* archive members extracted so far (zf.extract)
    calls,       \* scanner functions entered so far
    scanFn,      \* the scanner entered last
    scanFile,    \* the archive member it scans
    mapped,      \* archive members whose mmap is still mapped
    err,         \* the exception read_ndax raised, "none" if none
    warnings,    \* number of logging.warning calls
    mm_size,     \* mm.size() of the buffer being scanned
    pos,         \* mm.tell() (fixed-block scanners) / header (read_ndc)
    identifier,  \* mm[517:525] of the buffer being scanned by read_ndc
    slices,      \* anchor matches read_ndc has read from this buffer
    written,     \* non-padding sub-records met so far in this buffer
    shortRows,   \* sub-records unpacked from a chunk shorter than a block
    rec,         \* the list rec of a fixed-block scanner
    output,      \* the list output of read_ndc
    aux,         \* the list aux of read_ndc
    ndc_df,      \* the table df of read_ndc
    data_df, runInfo_df, step_df, aux_df,   \* the tables of read_ndax
    auxTodo      \* auxiliary members of zf.namelist() not yet visited

vars == <<pc, rev, extracted, calls, scanFn, scanFile, mapped, err, warnings,
          mm_size, pos, identifier, slices, written, shortRows, rec, output,
          aux, ndc_df, data_df, runInfo_df, step_df, aux_df, auxTodo>>

scanVars == <<mm_size, pos, identifier, slices, written, shortRows, rec,
              output, aux, ndc_df>>
tableVars == <<data_df, runInfo_df, step_df, aux_df>>

----------------------------------------------------------------------------
\* Bounds of the model.

\* complete 4096-byte blocks after the header of a fixed-block file
MaxBlocks == 1
\* non-padding sub-records written in one run-info file
MaxRunInfo == 3
\* non-padding sub-records written in one step file
MaxSteps == 2
\* anchor matches in data.ndc
MaxSlices == 3
\* anchor matches in one auxiliary-channel member
MaxAuxSlices == 1
\* auxiliary-channel members in one archive
MaxAuxFiles == 2

\* Input domains.
Revisions == {7, 8, 9}
\* bytes of data.ndc left after its last complete block
TailSizes == {0, 216, 242}
RunInfoIndexVals == {1, 2, 5, 8}
RawSteps == {5, 7}
StatusBytes == {1, 99}
\* leading byte (0x55, 0x65, 0x74 or an unknown one) and Aux byte of the
\* first record of data.ndc
DataHeaders == {<<85, 1>>, <<101, 1>>, <<116, 2>>, <<0, 1>>}
\* bytes mm.read(record_len) returns: a whole record, or what is left of the
\* buffer when it ends inside the record
SliceLens == {94, 60, 20}
\* bytes between the end of one record and the next anchor match
Gaps == {0}
IndexVals == {1, 2, 3}
AuxIndexVals == {1, 3}
\* the same of an auxiliary-channel member
AuxHeaders == {<<101, 1>>, <<116, 2>>}
CycleVals == {0, 1}
RangeCodes == {0, 7}
Months == {0, 1}
AuxNames == <<"data_AUX_1.ndc", "data_AUX_2.ndc", "data_AUX_3.ndc",
              "data_AUX_4.ndc">>

----------------------------------------------------------------------------
\* Program constants.

record_len_8 == 4096
header_8 == 4096
PayloadStart == 132
MainTrim == 4
RunInfoTrim == 63
StepTrim == 5
MainSubLen == 8
RunInfoSubLen == 47
StepSubLen == 37
record_len == 94
header == 517

----------------------------------------------------------------------------
\* Helpers.

Min(a, b) == IF a < b THEN a ELSE b
Max(a, b) == IF a > b THEN a ELSE b

\* an empty table cell (NaN) and a filled one
NaN == <<>>
Cell(v) == <<v>>

\* len(bytes[lo:-cut]) for a bytes object of length n
PayloadLen(n, lo, cut) == Max(Max(n - cut, 0) - Min(lo, n), 0)

\* NewareNDA.dicts.state_dict: status byte -> state name
state_dict == (1 :> "CC_Chg") @@ (2 :> "CC_DChg") @@ (4 :> "Rest")

\* NewareNDA.dicts.multiplier_dict: range code -> multiplier
multiplier_dict == (0 :> 1)

\* NewareNDA.NewareNDA._count_changes: number of value changes up to each row
count_changes(s) ==
    [i \in 1..Len(s) |->
        Cardinality({j \in 1..i : j = 1 \/ s[j] # s[j-1]})]

RECURSIVE Flatten(_)
Flatten(ss) == IF ss = <<>> THEN <<>> ELSE Head(ss) \o Flatten(Tail(ss))

----------------------------------------------------------------------------
\* Control helpers.

\* an exception leaves the function: the frame, and with it mm, stays
\* referenced by the traceback, so nothing is unmapped
Raise(e) ==
    /\ pc' = "raised"
    /\ err' = e

\* sizes of data.ndc: the header, whole blocks and a tail
MainSizes ==
    {header_8 + b * record_len_8 + t : b \in 0..MaxBlocks, t \in TailSizes}

\* sizes of data_runInfo.ndc and data_step.ndc: one block, one block and a
\* tail of 216 bytes, no block and a tail of 242 bytes
CompanionSizes ==
    {header_8 + record_len_8, header_8 + record_len_8 + 216, header_8 + 242}

\* with open(file, 'rb') as f: mm = mmap.mmap(...); mm.seek(header)
Open8(fn, file, sizes, live) ==
    /\ mm_size' \in sizes
    /\ pc' = fn
    /\ scanFn' = fn
    /\ scanFile' = file
    /\ calls' = calls \cup {fn}
    /\ extracted' = extracted \cup {file}
    /\ mapped' = live \cup {file}
    /\ pos' = header_8
    /\ rec' = <<>>
    /\ written' = 0
    /\ shortRows' = 0

\* read_ndc, lines 167-177: the buffer holds at least the first anchor
OpenNdc(file, headers, live) ==
    /\ \E h \in headers : identifier' = [type |-> h[1], aux |-> h[2]]
    /\ pc' = "read_ndc"
    /\ scanFn' = "read_ndc"
    /\ scanFile' = file
    /\ calls' = calls \cup {"read_ndc"}
    /\ extracted' = extracted \cup {file}
    /\ mapped' = live \cup {file}
    /\ pos' = header
    /\ slices' = 0
    /\ output' = <<>>
    /\ aux' = <<>>
    /\ ndc_df' = <<>>

\* the locals of a fixed-block scanner die with its frame
Forget ==
    /\ mm_size' = 0
    /\ pos' = 0
    /\ rec' = <<>>
    /\ written' = 0
    /\ shortRows' = 0

\* mm.read(record_len) at pos
ChunkLen == Min(record_len_8, mm_size - pos)

----------------------------------------------------------------------------
\* read_ndax, version check

Init ==
    /\ pc = "start"
    /\ rev \in Revisions
    /\ extracted = {"VersionInfo.xml"}
    /\ calls = {}
    /\ scanFn = "none"
    /\ scanFile = "none"
    /\ mapped = {}
    /\ err = "none"
    /\ warnings = 0
    /\ mm_size = 0
    /\ pos = 0
    /\ identifier = <<>>
    /\ slices = 0
    /\ written = 0
    /\ shortRows = 0
    /\ rec = <<>>
    /\ output = <<>>
    /\ aux = <<>>
    /\ ndc_df = <<>>
    /\ data_df = <<>>
    /\ runInfo_df = <<>>
    /\ step_df = <<>>
    /\ aux_df = <<>>
    /\ auxTodo = 0

\* the version gate moved up by one revision
VersionUnsupported_above9(r) == r > 9

VersionUnsupported(r) == r > 8
IsFixedBlock(r) == r > 7

\* lines 41-43
RejectVersion ==
    /\ pc = "start"
    /\ VersionUnsupported(rev)
    /\ Raise("NotImplementedError")
    /\ UNCHANGED <<rev, extracted, calls, scanFn, scanFile, mapped, warnings,
                   scanVars, tableVars, auxTodo>>

\* lines 45-48
RouteFixed ==
    /\ pc = "start"
    /\ ~VersionUnsupported(rev)
    /\ IsFixedBlock(rev)
    /\ Open8("read_ndc_8", "data.ndc", MainSizes, mapped)
    /\ UNCHANGED <<rev, err, warnings, identifier, slices, output, aux, ndc_df,
                   tableVars, auxTodo>>

\* lines 45, 64-65
RouteLegacy ==
    /\ pc = "start"
    /\ ~VersionUnsupported(rev)
    /\ ~IsFixedBlock(rev)
    /\ OpenNdc("data.ndc", DataHeaders, mapped)
    /\ UNCHANGED <<rev, err, warnings, mm_size, written, shortRows, rec,
                   tableVars, auxTodo>>

----------------------------------------------------------------------------
\* read_ndc_8

MainSample == [Voltage |-> 3, Current |-> 500]

\* lines 95-98
ReadBlockMain ==
    /\ pc = "read_ndc_8"
    /\ pos < mm_size
    /\ LET n == ChunkLen
           p == PayloadLen(n, PayloadStart, MainTrim)
       IN IF p % MainSubLen # 0
          THEN /\ Raise("struct.error")
               /\ UNCHANGED <<pos, rec, shortRows>>
          ELSE /\ rec' = rec \o [i \in 1..(p \div MainSubLen) |-> MainSample]
               /\ pos' = pos + n
               /\ shortRows' = shortRows +
                     (IF n < record_len_8 THEN p \div MainSubLen ELSE 0)
               /\ UNCHANGED <<pc, err>>
    /\ UNCHANGED <<rev, extracted, calls, scanFn, scanFile, mapped, warnings,
                   mm_size, identifier, slices, written, output, aux, ndc_df,
                   tableVars, auxTodo>>

\* lines 100-103
DataFrame8(r) ==
    [i \in 1..Len(r) |->
        [Voltage |-> r[i].Voltage, Current |-> r[i].Current, Index |-> i]]

\* read_ndc_8 returns (its frame dies and mm is unmapped); lines 50-51
ReturnNdc8 ==
    /\ pc = "read_ndc_8"
    /\ pos >= mm_size
    /\ data_df' = DataFrame8(rec)
    /\ Open8("read_data_runInfo_ndc8", "data_runInfo.ndc", CompanionSizes,
             mapped \ {scanFile})
    /\ UNCHANGED <<rev, err, warnings, identifier, slices, output, aux, ndc_df,
                   runInfo_df, step_df, aux_df, auxTodo>>

----------------------------------------------------------------------------
\* read_data_runInfo_ndc8

\* the fields unpacked from the k-th non-padding sub-record of the buffer;
\* the instrument's clock stamps one record a minute
RunInfoSlot(k, index, step) ==
    [Timestamp |-> 1000 + 60 * k, Step |-> step, Index |-> index]

\* a sub-record the instrument did not write: all bytes zero
RunInfoPad == [Timestamp |-> 0, Step |-> 0, Index |-> 0]

\* the zero sub-records that fill the rest of a payload; they all decode
\* alike, so one stands for them
Padding(n, pad) == IF n > 0 THEN <<pad>> ELSE <<>>

\* lines 120-123
KeepRunInfo(slots) == SelectSeq(slots, LAMBDA i : i.Index # 0)

\* lines 118-123; the sub-records after the drawn ones are zero padding
ReadBlockRunInfo ==
    /\ pc = "read_data_runInfo_ndc8"
    /\ pos < mm_size
    /\ LET n == ChunkLen
           p == PayloadLen(n, PayloadStart, RunInfoTrim)
       IN IF p % RunInfoSubLen # 0
          THEN /\ Raise("struct.error")
               /\ UNCHANGED <<pos, rec, written, shortRows>>
          ELSE /\ \E k \in 0..Min(p \div RunInfoSubLen, MaxRunInfo - written) :
                  \E f \in [1..k -> RunInfoIndexVals \X RawSteps] :
                     /\ rec' = rec \o KeepRunInfo(
                            [j \in 1..k |->
                                RunInfoSlot(written + j, f[j][1], f[j][2])]
                            \o Padding(p \div RunInfoSubLen - k, RunInfoPad))
                     /\ written' = written + k
               /\ pos' = pos + n
               /\ shortRows' = shortRows +
                     (IF n < record_len_8 THEN p \div RunInfoSubLen ELSE 0)
               /\ UNCHANGED <<pc, err>>
    /\ UNCHANGED <<rev, extracted, calls, scanFn, scanFile, mapped, warnings,
                   mm_size, identifier, slices, output, aux, ndc_df, tableVars,
                   auxTodo>>

\* lines 125-129
DataFrameRunInfo(r) ==
    LET steps == count_changes([i \in 1..Len(r) |-> r[i].Step])
    IN [i \in 1..Len(r) |->
           [Timestamp |-> r[i].Timestamp, Step |-> steps[i],
            Index |-> r[i].Index]]

\* read_data_runInfo_ndc8 returns
ReturnRunInfo ==
    /\ pc = "read_data_runInfo_ndc8"
    /\ pos >= mm_size
    /\ runInfo_df' = DataFrameRunInfo(rec)
    /\ mapped' = mapped \ {scanFile}
    /\ pc' = "merge"
    /\ Forget
    /\ UNCHANGED <<rev, extracted, calls, scanFn, scanFile, err, warnings,
                   identifier, slices, output, aux, ndc_df, data_df, step_df, aux_df,
                   auxTodo>>

----------------------------------------------------------------------------
\* read_ndax, fixed-block merge

\* line 52: data_df[data_df['Index'] <= last]
Truncate(df, last) == SelectSeq(df, LAMBDA r : r.Index <= last)

\* line 53: data_df.merge(runInfo_df, how='left', on='Index')
MergeOnIndex(left, right) ==
    Flatten([i \in 1..Len(left) |->
        LET m == SelectSeq(right, LAMBDA r : r.Index = left[i].Index)
        IN IF m = <<>>
           THEN << left[i] @@ [Timestamp |-> NaN, Step |-> NaN] >>
           ELSE [j \in 1..Len(m) |->
                   left[i] @@ [Timestamp |-> Cell(m[j].Timestamp),
                               Step |-> Cell(m[j].Step)]]])

\* lines 52-53
MergeRunInfo ==
    /\ pc = "merge"
    /\ IF runInfo_df = <<>>
       THEN /\ Raise("IndexError")        \* .iat[-1] of an empty column
            /\ UNCHANGED data_df
       ELSE /\ data_df' = MergeOnIndex(
                   Truncate(data_df, runInfo_df[Len(runInfo_df)].Index),
                   runInfo_df)
            /\ pc' = "fill"
            /\ UNCHANGED err
    /\ UNCHANGED <<rev, extracted, calls, scanFn, scanFile, mapped, warnings,
                   scanVars, runInfo_df, step_df, aux_df, auxTodo>>

\* positions at or before i whose cell of column col is filled
Known(df, col, i) == {j \in 1..i : df[j][col] # NaN}
\* positions at or after i whose cell of column col is filled
KnownAfter(df, col, i) == {j \in i..Len(df) : df[j][col] # NaN}
Last(S) == CHOOSE j \in S : \A k \in S : k <= j
First(S) == CHOOSE j \in S : \A k \in S : j <= k

\* the forward fill left out
ffill_skipped(df, col) == df

\* line 56: Series.ffill
ffill(df, col) ==
    [i \in 1..Len(df) |->
        IF Known(df, col, i) = {} THEN df[i]
        ELSE [df[i] EXCEPT ![col] = df[Last(Known(df, col, i))][col]]]

\* lines 57-58: Series.interpolate(method='linear'): rows count as equally
\* spaced, leading gaps stay empty, trailing gaps repeat the last value
interpolate(df, col) ==
    [i \in 1..Len(df) |->
        IF Known(df, col, i) = {} THEN df[i]
        ELSE LET a == Last(Known(df, col, i))
                 va == df[a][col][1]
             IN IF KnownAfter(df, col, i) = {}
                THEN [df[i] EXCEPT ![col] = Cell(va)]
                ELSE LET b == First(KnownAfter(df, col, i))
                         vb == df[b][col][1]
                     IN IF a = b THEN df[i]
                        ELSE [df[i] EXCEPT ![col] =
                                Cell((va * (b - a) + (vb - va) * (i - a))
                                        \div (b - a))]]

\* lines 56-59; astype(int) refuses a column that still holds NaN.  The
\* Timestamp column keeps epoch seconds.  Lines 61-62 then open the step file.
FillMissing ==
    /\ pc = "fill"
    /\ LET filled == interpolate(ffill(data_df, "Step"), "Timestamp")
       IN IF \E i \in 1..Len(filled) : filled[i].Timestamp = NaN
          THEN /\ Raise("ValueError")
               /\ data_df' = filled
               /\ UNCHANGED <<extracted, calls, scanFn, scanFile, mapped,
                              mm_size, pos, written, shortRows, rec>>
          ELSE /\ data_df' = filled
               /\ Open8("read_data_step_ndc8", "data_step.ndc",
                        CompanionSizes, mapped)
               /\ UNCHANGED err
    /\ UNCHANGED <<rev, warnings, identifier, slices, output, aux, ndc_df,
                   runInfo_df, step_df, aux_df, auxTodo>>

----------------------------------------------------------------------------
\* read_data_step_ndc8

\* a sub-record the instrument did not write: all bytes zero
StepPad == [Cycle |-> 0, Step_Index |-> 0, Status |-> 0]

\* lines 147-149 for the sub-records of one block, in order
StepRows(slots) ==
    LET kept == SelectSeq(slots, LAMBDA i : i.Step_Index # 0)
    IN [j \in 1..Len(kept) |->
           [Cycle |-> kept[j].Cycle + 1, Step_Index |-> kept[j].Step_Index,
            Status |-> state_dict[kept[j].Status]]]

StepDecodable(slots) ==
    \A j \in 1..Len(slots) :
        slots[j].Step_Index # 0 => slots[j].Status \in DOMAIN state_dict

\* lines 144-149
ReadBlockStep ==
    /\ pc = "read_data_step_ndc8"
    /\ pos < mm_size
    /\ LET n == ChunkLen
           p == PayloadLen(n, PayloadStart, StepTrim)
       IN IF p % StepSubLen # 0
          THEN /\ Raise("struct.error")
               /\ UNCHANGED <<pos, rec, written, shortRows>>
          ELSE \E k \in 0..Min(p \div StepSubLen, MaxSteps - written) :
               \E f \in [1..k -> StatusBytes] :
                  LET slots == [j \in 1..k |->
                                  [Cycle |-> 0, Step_Index |-> 1,
                                   Status |-> f[j]]]
                               \o Padding(p \div StepSubLen - k, StepPad)
                  IN IF ~StepDecodable(slots)
                     THEN /\ Raise("KeyError")
                          /\ UNCHANGED <<pos, rec, written, shortRows>>
                     ELSE /\ rec' = rec \o StepRows(slots)
                          /\ written' = written + k
                          /\ pos' = pos + n
                          /\ shortRows' = shortRows +
                                (IF n < record_len_8
                                 THEN p \div StepSubLen ELSE 0)
                          /\ UNCHANGED <<pc, err>>
    /\ UNCHANGED <<rev, extracted, calls, scanFn, scanFile, mapped, warnings,
                   mm_size, identifier, slices, output, aux, ndc_df, tableVars,
                   auxTodo>>

\* lines 151-154
DataFrameStep(r) ==
    [i \in 1..Len(r) |-> r[i] @@ [Step |-> i]]

\* read_data_step_ndc8 returns
ReturnStep ==
    /\ pc = "read_data_step_ndc8"
    /\ pos >= mm_size
    /\ step_df' = DataFrameStep(rec)
    /\ mapped' = mapped \ {scanFile}
    /\ pc' = "merge_step"
    /\ Forget
    /\ UNCHANGED <<rev, extracted, calls, scanFn, scanFile, err, warnings,
                   identifier, slices, output, aux, ndc_df, data_df, runInfo_df,
                   aux_df, auxTodo>>

\* line 63: data_df.merge(step_df, how='left', on='Step')
MergeOnStep(left, right) ==
    Flatten([i \in 1..Len(left) |->
        LET m == SelectSeq(right, LAMBDA r : Cell(r.Step) = left[i].Step)
        IN IF m = <<>>
           THEN << left[i] @@ [Cycle |-> NaN, Step_Index |-> NaN,
                                Status |-> NaN] >>
           ELSE [j \in 1..Len(m) |->
                   left[i] @@ [Cycle |-> Cell(m[j].Cycle),
                               Step_Index |-> Cell(m[j].Step_Index),
                               Status |-> Cell(m[j].Status)]]])

\* line 63 and the return of line 80
MergeStep ==
    /\ pc = "merge_step"
    /\ data_df' = MergeOnStep(data_df, step_df)
    /\ pc' = "done"
    /\ UNCHANGED <<rev, extracted, calls, scanFn, scanFile, mapped, err,
                   warnings, scanVars, runInfo_df, step_df, aux_df, auxTodo>>

----------------------------------------------------------------------------
\* read_ndc

\* _bytes_to_list_ndc, lines 214-241: the exception it raises on a slice of
\* n bytes, "none" if it returns a record
MainDecodeError(n, status, range, month) ==
    IF n < 86 THEN "struct.error"
    ELSE IF range \notin DOMAIN multiplier_dict THEN "KeyError"
    ELSE IF status \notin DOMAIN state_dict THEN "KeyError"
    ELSE IF month \notin 1..12 THEN "ValueError"
    ELSE "none"

\* _bytes_to_list_ndc, lines 226-241 (Index, Cycle, Status, Current)
bytes_to_list_ndc(index, cycle, status, range) ==
    [Index |-> index, Cycle |-> cycle + 1, Status |-> state_dict[status],
     Current |-> 500 * multiplier_dict[range]]

\* the raw voltage field of the record channel a writes for an Index
AuxVoltage(index, a) == 10000 * (10 * a + index)

\* _aux_bytes_65_to_list_ndc, lines 246-251
aux_bytes_65_to_list_ndc(index, a, v) ==
    [Index |-> index, Aux |-> a, V |-> Cell(v \div 10000),
     T |-> Cell(250 \div 10), t |-> NaN]

\* _aux_bytes_74_to_list_ndc, lines 256-261
aux_bytes_74_to_list_ndc(index, a, v) ==
    [Index |-> index, Aux |-> a, V |-> Cell(v \div 10000),
     T |-> Cell(250 \div 10), t |-> Cell(10 \div 10)]

\* the else branch decoding the slice as a main record
RecordKind_else_main(type) ==
    IF type = 101 THEN "aux65"
    ELSE IF type = 116 THEN "aux74"
    ELSE "main"

\* lines 181-187: the branch taken for a leading byte
RecordKind(type) ==
    IF type = 85 THEN "main"
    ELSE IF type = 101 THEN "aux65"
    ELSE IF type = 116 THEN "aux74"
    ELSE "unknown"

\* the anchor occurs this many times at most in the buffer being scanned
SliceLimit == IF scanFile = "data.ndc" THEN MaxSlices ELSE MaxAuxSlices

\* line 189: mm.find(identifier, header + record_len); every match starts
\* with the identifier, so every slice read has its leading and Aux bytes
FindNext(n) ==
    \/ pos' = -1
    \/ /\ n = record_len
       /\ slices + 1 < SliceLimit
       /\ \E g \in Gaps : pos' = pos + record_len + g

\* lines 178-189, one pass of the loop
ScanNdc ==
    /\ pc = "read_ndc"
    /\ pos # -1
    /\ \E n \in SliceLens :
        CASE RecordKind(identifier.type) = "main" ->
               \E index \in IndexVals, cycle \in CycleVals,
                  status \in StatusBytes,
                  range \in RangeCodes, month \in Months :
                  LET e == MainDecodeError(n, status, range, month)
                  IN IF e # "none"
                     THEN /\ Raise(e)
                          /\ UNCHANGED <<pos, slices, output, aux, warnings>>
                     ELSE /\ output' = Append(output,
                                 bytes_to_list_ndc(index, cycle, status, range))
                          /\ FindNext(n)
                          /\ slices' = slices + 1
                          /\ UNCHANGED <<pc, err, aux, warnings>>
          [] RecordKind(identifier.type) = "aux65" ->
               \E index \in AuxIndexVals :
                  IF n < 43
                  THEN /\ Raise("struct.error")
                       /\ UNCHANGED <<pos, slices, output, aux, warnings>>
                  ELSE /\ aux' = Append(aux,
                              aux_bytes_65_to_list_ndc(index, identifier.aux,
                                  AuxVoltage(index, identifier.aux)))
                       /\ FindNext(n)
                       /\ slices' = slices + 1
                       /\ UNCHANGED <<pc, err, output, warnings>>
          [] RecordKind(identifier.type) = "aux74" ->
               \E index \in AuxIndexVals :
                  IF n < 45
                  THEN /\ Raise("struct.error")
                       /\ UNCHANGED <<pos, slices, output, aux, warnings>>
                  ELSE /\ aux' = Append(aux,
                              aux_bytes_74_to_list_ndc(index, identifier.aux,
                                  AuxVoltage(index, identifier.aux)))
                       /\ FindNext(n)
                       /\ slices' = slices + 1
                       /\ UNCHANGED <<pc, err, output, warnings>>
          [] OTHER ->
               /\ warnings' = warnings + 1
               /\ FindNext(n)
               /\ slices' = slices + 1
               /\ UNCHANGED <<pc, err, output, aux>>
    /\ UNCHANGED <<rev, extracted, calls, scanFn, scanFile, mapped, mm_size,
                   identifier, written, shortRows, rec, ndc_df, tableVars,
                   auxTodo>>

\* drop_duplicates with keep='last'
drop_duplicates_keep_last(df) ==
    SelectSeq([i \in 1..Len(df) |->
                  [row |-> df[i],
                   dup |-> \E j \in (i+1)..Len(df) :
                              df[j].Index = df[i].Index]],
              LAMBDA x : ~x.dup)

\* line 193: drop_duplicates(subset='Index'), keep='first'
drop_duplicates(df) ==
    SelectSeq([i \in 1..Len(df) |->
                  [row |-> df[i],
                   dup |-> \E j \in 1..(i-1) : df[j].Index = df[i].Index]],
              LAMBDA x : ~x.dup)

DropDuplicates(df) ==
    LET kept == drop_duplicates(df) IN [i \in 1..Len(kept) |-> kept[i].row]

\* line 195: Series.is_monotonic_increasing
is_monotonic_increasing(df) ==
    \A i \in 1..(Len(df) - 1) : df[i].Index <= df[i+1].Index

RECURSIVE Insert(_, _)
Insert(r, sorted) ==
    IF sorted = <<>> THEN <<r>>
    ELSE IF r.Index < Head(sorted).Index THEN <<r>> \o sorted
    ELSE <<Head(sorted)>> \o Insert(r, Tail(sorted))

\* the sort left out
sort_values_skipped(df) == df

\* line 196: sort_values('Index')
RECURSIVE sort_values(_)
sort_values(df) ==
    IF df = <<>> THEN <<>>
    ELSE Insert(df[Len(df)], sort_values(SubSeq(df, 1, Len(df) - 1)))

\* lines 192-198
MainTable(out) ==
    LET df == DropDuplicates(out)
    IN IF ~is_monotonic_increasing(df) THEN sort_values(df) ELSE df

\* lines 201-206
AuxTable(id, a) ==
    IF id.type = 101 \/ id.type = 116 THEN a ELSE <<>>

\* lines 191-206, still inside read_ndc
PostProcess ==
    /\ pc = "read_ndc"
    /\ pos = -1
    /\ ndc_df' = MainTable(output)
    /\ pc' = "read_ndc_post"
    /\ UNCHANGED <<rev, extracted, calls, scanFn, scanFile, mapped, err,
                   warnings, mm_size, pos, identifier, slices, written,
                   shortRows, rec, output, aux, tableVars, auxTodo>>

\* the locals of read_ndc die with its frame
ForgetNdc ==
    /\ pos' = 0
    /\ identifier' = <<>>
    /\ slices' = 0
    /\ output' = <<>>
    /\ aux' = <<>>
    /\ ndc_df' = <<>>

\* line 207 returns to line 65; lines 68-69
ReturnNdcMain ==
    /\ pc = "read_ndc_post"
    /\ scanFile = "data.ndc"
    /\ data_df' = ndc_df
    /\ aux_df' = <<>>
    /\ \E k \in 0..MaxAuxFiles : auxTodo' = k
    /\ mapped' = mapped \ {scanFile}
    /\ pc' = "aux_files"
    /\ ForgetNdc
    /\ UNCHANGED <<rev, extracted, calls, scanFn, scanFile, err, warnings,
                   mm_size, written, shortRows, rec, runInfo_df, step_df>>

\* lines 69-73
NextAux ==
    /\ pc = "aux_files"
    /\ auxTodo > 0
    /\ OpenNdc(AuxNames[auxTodo], AuxHeaders, mapped)
    /\ UNCHANGED <<rev, err, warnings, mm_size, written, shortRows, rec,
                   tableVars, auxTodo>>

\* line 207 returns to line 73; line 74
ReturnNdcAux ==
    /\ pc = "read_ndc_post"
    /\ scanFile # "data.ndc"
    /\ aux_df' = aux_df \o AuxTable(identifier, aux)
    /\ auxTodo' = auxTodo - 1
    /\ mapped' = mapped \ {scanFile}
    /\ pc' = "aux_files"
    /\ ForgetNdc
    /\ UNCHANGED <<rev, extracted, calls, scanFn, scanFile, err, warnings,
                   mm_size, written, shortRows, rec, data_df, runInfo_df,
                   step_df>>

\* the value columns of the concatenated auxiliary table
AuxValueCols(a) ==
    {"V", "T"} \cup (IF \E i \in 1..Len(a) : a[i].t # NaN THEN {"t"} ELSE {})

AuxChannels(a) == {a[i].Aux : i \in 1..Len(a)}

\* line 76: pivot refuses two rows with the same (Index, Aux)
PivotFails(a) ==
    \E i, j \in 1..Len(a) :
        i # j /\ a[i].Index = a[j].Index /\ a[i].Aux = a[j].Aux

\* a pivot that forgets which channel a record came from
PivotRow_any_channel(a, index) ==
    [c \in AuxValueCols(a) \X AuxChannels(a) |->
        LET m == {i \in 1..Len(a) : a[i].Index = index}
        IN IF m = {} THEN NaN ELSE a[CHOOSE i \in m : TRUE][c[1]]]

\* lines 76-77: the pivoted row of one Index, a cell for every (column, Aux)
PivotRow(a, index) ==
    [c \in AuxValueCols(a) \X AuxChannels(a) |->
        LET m == {i \in 1..Len(a) : a[i].Index = index /\ a[i].Aux = c[2]}
        IN IF m = {} THEN NaN ELSE a[CHOOSE i \in m : TRUE][c[1]]]

\* line 78: data_df.join(pvt_df, on='Index')
JoinOnIndex(df, a) ==
    [i \in 1..Len(df) |-> df[i] @@ [aux |-> PivotRow(a, df[i].Index)]]

\* lines 75-80
JoinAux ==
    /\ pc = "aux_files"
    /\ auxTodo = 0
    /\ IF aux_df = <<>>
       THEN /\ pc' = "done"
            /\ UNCHANGED <<err, data_df>>
       ELSE IF PivotFails(aux_df)
       THEN /\ Raise("ValueError")
            /\ UNCHANGED data_df
       ELSE /\ data_df' = JoinOnIndex(data_df, aux_df)
            /\ pc' = "done"
            /\ UNCHANGED err
    /\ UNCHANGED <<rev, extracted, calls, scanFn, scanFile, mapped, warnings,
                   scanVars, runInfo_df, step_df, aux_df, auxTodo>>

----------------------------------------------------------------------------
Next ==
    \/ RejectVersion
    \/ RouteFixed
    \/ RouteLegacy
    \/ ReadBlockMain
    \/ ReturnNdc8
    \/ ReadBlockRunInfo
    \/ ReturnRunInfo
    \/ MergeRunInfo
    \/ FillMissing
    \/ ReadBlockStep
    \/ ReturnStep
    \/ MergeStep
    \/ ScanNdc
    \/ PostProcess
    \/ ReturnNdcMain
    \/ NextAux
    \/ ReturnNdcAux
    \/ JoinAux

Spec == Init /\ [][Next]_vars

----------------------------------------------------------------------------
\* Properties.

Indices(tbl) == {tbl[i].Index : i \in 1..Len(tbl)}
StateNames == {state_dict[k] : k \in DOMAIN state_dict}
FixedScanners ==
    {"read_ndc_8", "read_data_runInfo_ndc8", "read_data_step_ndc8"}
Scanning == FixedScanners \cup {"read_ndc", "read_ndc_post"}

\* C1: whenever read_ndc has built its main table, the Index column of the
\* table is strictly increasing from each row to the next (hence unique), and
\* it holds exactly the Index values that were scanned.
C1_IndexStrictlyIncreasing ==
    pc = "read_ndc_post" =>
        /\ \A i \in 1..(Len(ndc_df) - 1) :
              ndc_df[i].Index < ndc_df[i+1].Index
        /\ Indices(ndc_df) = Indices(output)

\* C1 witness: a scan that met 3, 1, 3 in this order has built its table.
C1_Witness ==
    /\ pc = "read_ndc_post"
    /\ Len(output) = 3
    /\ output[1].Index = 3 /\ output[2].Index = 1 /\ output[3].Index = 3
    /\ Len(ndc_df) = 2

\* C2: a revision above 8 extracts no data file, enters no scanner and ends
\* in NotImplementedError; revision 8 enters only the three fixed-block
\* scanners; a revision up to 7 enters only read_ndc.
C2_VersionRouting ==
    /\ rev > 8 =>
          /\ extracted = {"VersionInfo.xml"}
          /\ calls = {}
          /\ mapped = {}
          /\ pc \in {"start", "raised"}
          /\ pc = "raised" => err = "NotImplementedError"
    /\ rev = 8 => calls \subseteq FixedScanners
    /\ rev <= 7 => calls \subseteq {"read_ndc"}

\* C2 witness: revision 9 has been rejected.
C2_Witness ==
    /\ rev = 9
    /\ pc = "raised"
    /\ err = "NotImplementedError"

\* the Status cell of a row of the table read_ndax returns
StatusCell(row) == IF IsFixedBlock(rev) THEN row.Status ELSE Cell(row.Status)

\* C3: every row of the table read_ndax returns has a Status, and it is one
\* of the state names of the lookup table.
C3_StatusAlwaysKnown ==
    pc = "done" =>
        \A i \in 1..Len(data_df) :
            /\ StatusCell(data_df[i]) # NaN
            /\ StatusCell(data_df[i])[1] \in StateNames

\* C4: merging main samples 1..10 with run-info records whose indices are
\* {2, 5, 8} gives a table of 10 rows, one for each main-sample index.
C4_MergeKeepsTenRows ==
    [][(/\ pc = "merge"
        /\ Indices(data_df) = 1..10
        /\ Indices(runInfo_df) = {2, 5, 8})
       => (/\ Len(data_df') = 10
           /\ Indices(data_df') = 1..10)]_vars

\* C5: a fixed-block scanner whose buffer does not end on a block boundary
\* raises no unpacking error and unpacks nothing from the short last chunk.
C5_ShortTailStopsCleanly ==
    (/\ scanFn \in FixedScanners
     /\ pc \in FixedScanners \cup {"raised"}
     /\ mm_size > header_8
     /\ (mm_size - header_8) % record_len_8 # 0)
    => (/\ err # "struct.error"
        /\ shortRows = 0)

\* C6: a pass of the read_ndc loop over a slice whose leading byte is not
\* 0x55, 0x65 or 0x74 raises nothing, adds no row to output or aux, logs one
\* warning and stays in the loop; and every pass that does not raise accounts
\* for its slice with exactly one row or one warning.
C6_UnknownTypeSkipped ==
    [][(pc = "read_ndc" /\ pos # -1) =>
          /\ identifier.type \notin {85, 101, 116} =>
                /\ pc' = "read_ndc"
                /\ err' = "none"
                /\ output' = output
                /\ aux' = aux
                /\ warnings' = warnings + 1
                /\ slices' = slices + 1
          /\ pc' = "read_ndc" =>
                Len(output') + Len(aux') + warnings'
                    = Len(output) + Len(aux) + warnings + 1]_vars

\* C6 witness: after a first unknown slice the scan went on to a second one,
\* and ended with an empty table.
C6_Witness ==
    /\ pc = "read_ndc_post"
    /\ identifier.type = 0
    /\ slices = 2
    /\ warnings = 2
    /\ ndc_df = <<>>

\* the first record of a list with a given Index
FirstWith(out, index) ==
    out[CHOOSE i \in 1..Len(out) :
           /\ out[i].Index = index
           /\ \A j \in 1..(i-1) : out[j].Index # index]

\* C7: the main table of read_ndc holds, for every scanned Index, exactly one
\* row, and that row is the first record scanned with that Index.
C7_KeepsFirstOccurrence ==
    pc = "read_ndc_post" =>
        /\ \A i \in 1..Len(ndc_df) :
              ndc_df[i] = FirstWith(output, ndc_df[i].Index)
        /\ \A j \in 1..Len(output) :
              Cardinality({i \in 1..Len(ndc_df) :
                              ndc_df[i].Index = output[j].Index}) = 1

\* C7 witness: Index 3 was scanned twice with different contents, around a
\* smaller Index, so that the table also had to be sorted.
C7_Witness ==
    /\ pc = "read_ndc_post"
    /\ Len(output) = 3
    /\ output[1].Index = 3 /\ output[2].Index = 1 /\ output[3].Index = 3
    /\ output[1].Cycle # output[3].Cycle
    /\ Len(ndc_df) = 2
    /\ ndc_df[2] = output[1]

\* C8: the join of lines 75-78 keeps every main row as it was, in order, and
\* gives it one group of cells (V, T) per channel: the cells of a channel
\* hold the record that channel wrote for the row's Index, and are empty when
\* it wrote none.
C8_AuxPivotJoin ==
    [][(/\ pc = "aux_files"
        /\ auxTodo = 0
        /\ aux_df # <<>>
        /\ pc' = "done")
       => (/\ Len(data_df') = Len(data_df)
           /\ \A i \in 1..Len(data_df) :
                 /\ \A f \in DOMAIN data_df[i] : data_df'[i][f] = data_df[i][f]
                 /\ \A k \in 1..Len(aux_df) :
                       /\ <<"V", aux_df[k].Aux>> \in DOMAIN data_df'[i].aux
                       /\ <<"T", aux_df[k].Aux>> \in DOMAIN data_df'[i].aux
                 /\ \A c \in DOMAIN data_df'[i].aux :
                       LET m == {k \in 1..Len(aux_df) :
                                   /\ aux_df[k].Index = data_df[i].Index
                                   /\ aux_df[k].Aux = c[2]}
                       IN IF m = {}
                          THEN data_df'[i].aux[c] = NaN
                          ELSE \A k \in m :
                                  data_df'[i].aux[c] = aux_df[k][c[1]])]_vars

\* C8 witness: channels 1 and 2 both reported Index 3; the row of Index 3
\* holds both groups, and the row of Index 1 holds empty cells.
C8_Witness ==
    /\ pc = "done"
    /\ ~IsFixedBlock(rev)
    /\ Len(data_df) = 2
    /\ data_df[1].Index = 1 /\ data_df[2].Index = 3
    /\ "aux" \in DOMAIN data_df[1] /\ "aux" \in DOMAIN data_df[2]
    /\ {<<"V", 1>>, <<"V", 2>>} \subseteq DOMAIN data_df[2].aux
    /\ data_df[2].aux[<<"V", 1>>] = Cell(13)
    /\ data_df[2].aux[<<"V", 2>>] = Cell(23)
    /\ \A c \in DOMAIN data_df[1].aux : data_df[1].aux[c] = NaN

\* the run-info rows with a given Index, and the last row of the greatest
\* Index below a given one
RunInfoAt(index) == {k \in 1..Len(runInfo_df) : runInfo_df[k].Index = index}
RunInfoBelow(index) == {k \in 1..Len(runInfo_df) : runInfo_df[k].Index < index}
LastBelow(index) ==
    CHOOSE k \in RunInfoBelow(index) :
        \A j \in RunInfoBelow(index) :
            \/ runInfo_df[j].Index < runInfo_df[k].Index
            \/ (runInfo_df[j].Index = runInfo_df[k].Index /\ j <= k)

C10_BufferReleased ==
    pc \notin Scanning => mapped = {}

====
